---- MODULE Spec2Model ----
(***************************************************************************)
(* A model of archivist.py (jmelis/organize-media): one run of             *)
(* organize_media over a small filesystem.  The run discovers media files, *)
(* resolves a date per file, plans a move per resolved file and executes   *)
(* the plan on a pool of worker threads.                                   *)
(*                                                                         *)
(* Paths are sequences of segments (strings); the filesystem is a function *)
(* from the paths that exist to their nodes.  Strings are computed with    *)
(* Len, SubSeq and \o, so suffixes, lower-casing and date formatting are   *)
(* done on the characters, as the code does them.                          *)
(***************************************************************************)
EXTENDS Integers, Sequences, FiniteSets, TLC

\* ------------------------------------------------------------------ bounds

\* Media files in the source tree (of the candidates: a.jpg in two
\* subdirectories, and one video).
MaxFiles == 2
\* Distinct byte contents 1..MaxBody of the files that carry the first day.
MaxBody == 2
\* Entries below the source root in the runs over varied trees.
MaxEntries == 2
\* Runs of the tool made one after the other with the same arguments.
MaxRuns == 2
\* Failures the environment may inject into one run: into a call of the
\* metadata provider, or into a move.
MaxInjected == 1
\* Photos in the runs that vary the batch size, and the largest batch size.
MaxBatch == 3

\* ------------------------------------------------------------- strings

UpperChars == "ABCDEFGHIJKLMNOPQRSTUVWXYZ"
LowerChars == "abcdefghijklmnopqrstuvwxyz"
DigitChars == "0123456789"

CharAt(s, i) == SubSeq(s, i, i)

\* The value of each digit, and the lower-case letter of each upper-case one.
DigitTable == [c \in {CharAt(DigitChars, i) : i \in 1..10} |->
                 (CHOOSE i \in 1..10 : CharAt(DigitChars, i) = c) - 1]
LowerTable == [c \in {CharAt(UpperChars, i) : i \in 1..26} |->
                 CharAt(LowerChars, CHOOSE i \in 1..26 : CharAt(UpperChars, i) = c)]

IsDigit(c) == c \in DOMAIN DigitTable
DigitVal(c) == DigitTable[c]
DigitChar(n) == CharAt(DigitChars, n + 1)

\* str.lower(), on the ASCII letters.
LowerChar(c) == IF c \in DOMAIN LowerTable THEN LowerTable[c] ELSE c

RECURSIVE Lower(_)
Lower(s) == IF Len(s) = 0 THEN "" ELSE LowerChar(Head(s)) \o Lower(Tail(s))

\* str.strip(), of blanks and line ends.
Blanks == {" ", "\n"}
RECURSIVE Strip(_)
Strip(s) ==
    IF Len(s) = 0 THEN ""
    ELSE IF Head(s) \in Blanks THEN Strip(Tail(s))
    ELSE IF CharAt(s, Len(s)) \in Blanks THEN Strip(SubSeq(s, 1, Len(s) - 1))
    ELSE s

\* str.rfind(c) + 1: the last position of c in s, 0 when there is none.
RFind(s, c) ==
    LET I == {i \in 1..Len(s) : CharAt(s, i) = c}
    IN  IF I = {} THEN 0 ELSE CHOOSE i \in I : \A j \in I : j <= i

\* All the characters of s[from..to] are digits.
AllDigits(s, from, to) == \A i \in from..to : IsDigit(CharAt(s, i))

\* int(s[from..to]) for a run of one to four digits.
RECURSIVE ToInt(_, _, _)
ToInt(s, from, to) ==
    IF to < from THEN 0
    ELSE 10 * ToInt(s, from, to - 1) + DigitVal(CharAt(s, to))

\* The decimal digits of n, zero-padded to width w.
RECURSIVE Pad(_, _)
Pad(n, w) == IF w = 0 THEN "" ELSE Pad(n \div 10, w - 1) \o DigitChar(n % 10)

\* --------------------------------------------------------------- paths

\* PurePath.name
Name(p) == p[Len(p)]
\* PurePath.parent
Parent(p) == SubSeq(p, 1, Len(p) - 1)
\* PurePath.suffix: from the last dot of the name, unless the dot leads or ends it.
Suffix(p) ==
    LET n == Name(p)
        j == RFind(n, ".")
    IN  IF 1 < j /\ j < Len(n) THEN SubSeq(n, j, Len(n)) ELSE ""

IsPrefix(p, q) == Len(p) <= Len(q) /\ SubSeq(q, 1, Len(p)) = p
IsUnder(root, q) == Len(root) < Len(q) /\ IsPrefix(root, q)
\* The ancestors of p, p included, the empty path excluded.
Prefixes(p) == {SubSeq(p, 1, k) : k \in 1..Len(p)}

\* ---------------------------------------------------------- filesystem

NoData == [stamp |-> "", body |-> 0]
NoPath == <<>>
Missing == [kind |-> "none", data |-> NoData, to |-> NoPath]
DirNode == [kind |-> "dir", data |-> NoData, to |-> NoPath]
FileNode(c) == [kind |-> "file", data |-> c, to |-> NoPath]
LinkNode(p) == [kind |-> "link", data |-> NoData, to |-> p]

\* os.lstat
Lstat(f, p) == IF p \in DOMAIN f THEN f[p] ELSE Missing
\* os.stat: a symbolic link is followed.
Stat(f, p) ==
    LET n == Lstat(f, p)
    IN  IF n.kind = "link" THEN Lstat(f, n.to) ELSE n

\* Path.exists, Path.is_file, Path.is_dir: all follow symbolic links.
exists(f, p) == Stat(f, p).kind # "none"
is_file(f, p) == Stat(f, p).kind = "file"
\* Mutant: whatever exists is taken for a directory.
is_dir_lenient(f, p) == Stat(f, p).kind # "none"
is_dir(f, p) == Stat(f, p).kind = "dir"

\* f without the entry p.
Remove(f, p) == [q \in DOMAIN f \ {p} |-> f[q]]

\* --------------------------------------------------------------- dates

PHOTO_EXTENSIONS == {".jpg", ".jpeg", ".arw", ".sr2", ".raf"}
VIDEO_EXTENSIONS == {".mp4", ".mov"}

None == "None"

IsLeap(y) == (y % 4 = 0 /\ y % 100 # 0) \/ y % 400 = 0
DaysInMonth(y, m) ==
    IF m = 2 THEN (IF IsLeap(y) THEN 29 ELSE 28)
    ELSE IF m \in {4, 6, 9, 11} THEN 30 ELSE 31

\* A datetime, as far as the target path reads it.
Date(y, m, d) == [year |-> y, month |-> m, day |-> d]

ValidDate(y, m, d) == y >= 1 /\ m \in 1..12 /\ d >= 1 /\ d <= DaysInMonth(y, m)
ValidTime(h, mi, s) == h <= 23 /\ mi <= 59 /\ s <= 59

\* re.match(r"\d{4}:\d{2}:\d{2} \d{2}:\d{2}:\d{2}", s): anchored at the start only.
MatchesExifPattern(s) ==
    /\ Len(s) >= 19
    /\ AllDigits(s, 1, 4) /\ CharAt(s, 5) = ":"
    /\ AllDigits(s, 6, 7) /\ CharAt(s, 8) = ":"
    /\ AllDigits(s, 9, 10) /\ CharAt(s, 11) = " "
    /\ AllDigits(s, 12, 13) /\ CharAt(s, 14) = ":"
    /\ AllDigits(s, 15, 16) /\ CharAt(s, 17) = ":"
    /\ AllDigits(s, 18, 19)

\* datetime.strptime(s, "%Y:%m:%d %H:%M:%S") of a string that matches the pattern:
\* the whole string must be consumed and the fields must be in range.
StrptimeOk(s) ==
    /\ Len(s) = 19
    /\ ValidDate(ToInt(s, 1, 4), ToInt(s, 6, 7), ToInt(s, 9, 10))
    /\ ValidTime(ToInt(s, 12, 13), ToInt(s, 15, 16), ToInt(s, 18, 19))

\* The body of the per-file try of extract_photo_dates on the metadata of one
\* photo, whose stamp is the value of EXIF:DateTimeOriginal ("" when the key is
\* absent): a date, a KeyError (swallowed) or a ValueError (not swallowed).
photo_date(stamp) ==
    IF stamp = "" THEN [kind |-> "KeyError", date |-> Date(0, 0, 0)]
    ELSE IF ~MatchesExifPattern(stamp) \/ ~StrptimeOk(stamp)
         THEN [kind |-> "ValueError", date |-> Date(0, 0, 0)]
    ELSE [kind |-> "date",
          date |-> Date(ToInt(stamp, 1, 4), ToInt(stamp, 6, 7), ToInt(stamp, 9, 10))]

\* datetime.fromisoformat(s), for YYYY-MM-DD and YYYY-MM-DDTHH:MM:SS.
FromIsoOk(s) ==
    /\ Len(s) \in {10, 19}
    /\ AllDigits(s, 1, 4) /\ CharAt(s, 5) = "-"
    /\ AllDigits(s, 6, 7) /\ CharAt(s, 8) = "-"
    /\ AllDigits(s, 9, 10)
    /\ ValidDate(ToInt(s, 1, 4), ToInt(s, 6, 7), ToInt(s, 9, 10))
    /\ Len(s) = 19 =>
          /\ AllDigits(s, 12, 13) /\ CharAt(s, 14) = ":"
          /\ AllDigits(s, 15, 16) /\ CharAt(s, 17) = ":"
          /\ AllDigits(s, 18, 19)
          /\ ValidTime(ToInt(s, 12, 13), ToInt(s, 15, 16), ToInt(s, 18, 19))

\* Mutant: a video without a usable creation time gets the first day of 1970.
extract_video_date_epoch(stamp) ==
    IF stamp # "" /\ FromIsoOk(stamp)
    THEN [kind |-> "date",
          date |-> Date(ToInt(stamp, 1, 4), ToInt(stamp, 6, 7), ToInt(stamp, 9, 10))]
    ELSE [kind |-> "date", date |-> Date(1970, 1, 1)]

\* extract_video_date on a file whose stamp is the last word of the probe's
\* creation_time line ("" when the probe prints no such line or cannot run):
\* a date, or None.
extract_video_date(stamp) ==
    IF stamp # "" /\ FromIsoOk(stamp)
    THEN [kind |-> "date",
          date |-> Date(ToInt(stamp, 1, 4), ToInt(stamp, 6, 7), ToInt(stamp, 9, 10))]
    ELSE [kind |-> None, date |-> Date(0, 0, 0)]

\* date.strftime("%Y") and date.strftime("%Y-%m-%d")
StrfYear(d) == Pad(d.year, 4)
StrfDay(d) == Pad(d.year, 4) \o "-" \o Pad(d.month, 2) \o "-" \o Pad(d.day, 2)

\* ------------------------------------------------------- path planning

calculate_target_path(file_path, date, target_dir, group_by_extension) ==
    LET target == target_dir \o <<StrfYear(date), StrfDay(date)>>
        ext == SubSeq(Suffix(file_path), 2, Len(Suffix(file_path)))
    IN  IF group_by_extension
        THEN target \o <<ext, Name(file_path)>>
        ELSE target \o <<Name(file_path)>>

\* filecmp.cmp(a, b, shallow=False): both regular files with the same bytes.
filecmp_cmp(f, a, b) ==
    /\ Stat(f, a).kind = "file"
    /\ Stat(f, b).kind = "file"
    /\ Stat(f, a).data = Stat(f, b).data

\* Mutant: with duplicate checking off, an existing target is taken for a copy.
check_file_conflict_guessing(f, source, target, check_duplicates) ==
    IF is_file(f, Parent(target)) THEN "Target directory is a file"
    ELSE IF exists(f, target) /\ check_duplicates /\ ~filecmp_cmp(f, source, target)
         THEN "Target already exists"
         ELSE None

\* Mutant: the parent of the target is not looked at.
check_file_conflict_no_parent(f, source, target, check_duplicates) ==
    IF exists(f, target)
    THEN IF check_duplicates /\ filecmp_cmp(f, source, target)
         THEN None
         ELSE "Target already exists"
    ELSE None

check_file_conflict(f, source, target, check_duplicates) ==
    IF is_file(f, Parent(target)) THEN "Target directory is a file"
    ELSE IF exists(f, target)
         THEN IF check_duplicates /\ filecmp_cmp(f, source, target)
              THEN None
              ELSE "Target already exists"
         ELSE None

\* Mutant: a file without conflict is always moved, also onto an identical target.
plan_file_moving_duplicates(f, file_path, target_path, check_duplicates, overwrite) ==
    IF overwrite THEN [action |-> "move", reason |-> None]
    ELSE LET conflict == check_file_conflict(f, file_path, target_path, check_duplicates)
         IN  IF conflict # None THEN [action |-> "error", reason |-> conflict]
             ELSE [action |-> "move", reason |-> None]

\* Mutant: the conflict checks are made in overwrite mode too.
plan_file_always_checking(f, file_path, target_path, check_duplicates, overwrite) ==
    LET conflict == check_file_conflict(f, file_path, target_path, check_duplicates)
    IN  IF conflict # None THEN [action |-> "error", reason |-> conflict]
        ELSE IF exists(f, target_path)
             THEN [action |-> "duplicate", reason |-> None]
             ELSE [action |-> "move", reason |-> None]

\* The classification of one resolved file by the planning loop of organize_media:
\* "move", "duplicate" or "error" (with the conflict message).
plan_file(f, file_path, target_path, check_duplicates, overwrite) ==
    IF overwrite THEN [action |-> "move", reason |-> None]
    ELSE LET conflict == check_file_conflict(f, file_path, target_path, check_duplicates)
         IN  IF conflict # None THEN [action |-> "error", reason |-> conflict]
             ELSE IF exists(f, target_path)
                  THEN [action |-> "duplicate", reason |-> None]
                  ELSE [action |-> "move", reason |-> None]

\* ------------------------------------------------------------ moving

\* Path.mkdir(parents=True, exist_ok=True) succeeds unless an ancestor that
\* exists, or the path itself, is not a directory.
mkdir_ok(f, p) == \A q \in Prefixes(p) : exists(f, q) \/ q \in DOMAIN f => is_dir(f, q)
mkdir_parents(f, p) == [q \in Prefixes(p) \ DOMAIN f |-> DirNode] @@ f

\* shutil.move(src, dst) of a file.  A destination that is a directory receives
\* the file under its own name, unless that name exists there.  os.rename
\* replaces a destination file.  inject is what the environment does to this
\* call: "none"; "denied" (rename and the copy fallback both refused: nothing
\* changes); "unlink" (rename refused, the fallback copies the file and the
\* unlink of the source is then refused: the destination is written and the
\* source stays; a symbolic link is made again as a link); "vanished" (another process removed the source before the
\* call: rename and the copy fallback both find no file).
real_dst(f, src, dst) == IF is_dir(f, dst) THEN dst \o <<Name(src)>> ELSE dst

shutil_move(f, src, dst, inject) ==
    LET rd == real_dst(f, src, dst)
    IN  IF is_dir(f, dst) /\ exists(f, rd)
        THEN [fs |-> f, error |-> "Move failed"]
        ELSE IF inject = "vanished"
        THEN [fs |-> Remove(f, src), error |-> "Move failed"]
        ELSE IF src \notin DOMAIN f
        THEN [fs |-> f, error |-> "Move failed"]
        ELSE IF Lstat(f, Parent(rd)).kind # "dir"
        THEN [fs |-> f, error |-> "Move failed"]
        ELSE IF inject = "denied"
        THEN [fs |-> f, error |-> "Permission denied"]
        ELSE IF inject = "unlink"
        THEN [fs |-> (rd :> (IF Lstat(f, src).kind = "link" THEN f[src]
                              ELSE FileNode(Stat(f, src).data))) @@ f,
              error |-> "Permission denied"]
        ELSE IF rd = src
        THEN [fs |-> f, error |-> None]
        ELSE [fs |-> (rd :> f[src]) @@ Remove(f, src), error |-> None]

\* perform_move(source, target), run alone: the directory, then the move; the
\* filesystem it leaves and its error message (None on success).
perform_move(f, source, target, inject) ==
    IF mkdir_ok(f, Parent(target))
    THEN shutil_move(mkdir_parents(f, Parent(target)), source, target, inject)
    ELSE [fs |-> f, error |-> "Move failed"]

\* ----------------------------------------------------------- discovery

RECURSIVE SetToSeq(_)
SetToSeq(S) ==
    IF S = {} THEN <<>>
    ELSE LET x == CHOOSE x \in S : TRUE IN <<x>> \o SetToSeq(S \ {x})

Range(s) == {s[i] : i \in 1..Len(s)}

\* source_dir.rglob("*"): every entry below the root (in the order the
\* filesystem lists them, which is fixed for a given tree).
rglob(f, source_dir) == {p \in DOMAIN f : IsUnder(source_dir, p)}

\* Mutant: the extension is compared as it is written.
discover_photos_case_sensitive(f, source_dir) ==
    SetToSeq({p \in rglob(f, source_dir) :
                is_file(f, p) /\ Suffix(p) \in PHOTO_EXTENSIONS})

discover_photos(f, source_dir) ==
    SetToSeq({p \in rglob(f, source_dir) :
                is_file(f, p) /\ Lower(Suffix(p)) \in PHOTO_EXTENSIONS})
discover_videos(f, source_dir) ==
    SetToSeq({p \in rglob(f, source_dir) :
                /\ is_file(f, p)
                /\ Lower(Suffix(p)) \notin PHOTO_EXTENSIONS
                /\ Lower(Suffix(p)) \in VIDEO_EXTENSIONS})

\* ------------------------------------------------------------ scenarios

SourceRoot == <<"S">>
TargetRoot == <<"T">>
\* A path that does not exist, for a root argument that is no directory.
NoRoot == <<"X">>

\* Stamps: two capture days in the EXIF form, a malformed value, a video time
\* and a video time that is no ISO date.
StampDay1 == "2024:03:15 10:30:00"
StampDay2 == "2024:03:16 08:00:00"
StampBad == "2024-03-15 10:30"
StampVideo == "2024-03-15T09:00:00"
StampVideoBad == "15/03/2024"

SubDir(i) == "d" \o DigitChar(i)
PhotoAt(i) == SourceRoot \o <<SubDir(i), "a.jpg">>
VideoPath == SourceRoot \o <<SubDir(1), "v.mov">>

Content(stamp, body) == [stamp |-> stamp, body |-> body]
PhotoContents ==
    {Content(StampDay1, b) : b \in 1..MaxBody}
        \cup {Content(s, 1) : s \in {StampDay2, "", StampBad}}
VideoContents == {Content(s, 1) : s \in {StampVideo, "", StampVideoBad}}

\* The photos of a source tree: a.jpg in the first k subdirectories, with their
\* contents.  Contents are compared for equality only, so the first photo of the
\* first day carries body 1.
PhotoLayouts ==
    {c \in UNION {[1..k -> PhotoContents] : k \in 0..2} :
        \A i \in DOMAIN c :
            (c[i].stamp = StampDay1 /\ \A j \in 1..(i - 1) : c[j].stamp # StampDay1)
                => c[i].body = 1}

\* The target path of a.jpg on the first day, without and with grouping.
Day1Dir == TargetRoot \o <<"2024", "2024-03-15">>
Day1Target(group) ==
    IF group THEN Day1Dir \o <<"jpg", "a.jpg">> ELSE Day1Dir \o <<"a.jpg">>

\* What the target tree holds before the run: nothing, a file where the year
\* directory would be, a file where the parent of the target would be, a file or
\* a directory at the target path.
Dirs(P) == [q \in P |-> DirNode]
TargetTrees(group) ==
    LET t == Day1Target(group)
    IN  {Dirs({TargetRoot})}
        \cup {(TargetRoot \o <<"2024">> :> FileNode(Content("", 1))) @@ Dirs({TargetRoot})}
        \cup {(Parent(t) :> FileNode(Content("", 1))) @@ Dirs(Prefixes(Parent(Parent(t))))}
        \cup {(t :> FileNode(Content(StampDay1, b))) @@ Dirs(Prefixes(Parent(t)))
                : b \in 1..MaxBody}
        \cup {Dirs(Prefixes(t))}

SourceTree(layout, video) ==
    LET photos_ == [p \in {PhotoAt(i) : i \in DOMAIN layout} |->
                        FileNode(layout[CHOOSE i \in DOMAIN layout : PhotoAt(i) = p])]
        videos_ == IF video = {} THEN <<>>
                   ELSE (VideoPath :> FileNode(CHOOSE c \in video : TRUE))
        dirs_ == Dirs({SourceRoot} \cup {Parent(p) : p \in DOMAIN photos_ \cup DOMAIN videos_})
    IN  photos_ @@ videos_ @@ dirs_

Options ==
    [source_dir : {SourceRoot, NoRoot}, target_dir : {TargetRoot, PhotoAt(1)},
     group_by_extension : BOOLEAN, dry_run : BOOLEAN, batch_size : {1, 2},
     skip_flag_check : BOOLEAN, check_duplicates : BOOLEAN, overwrite : BOOLEAN]

\* -------------------------------------------------------------- state

VARIABLES
    fs,          \* the filesystem
    fs0,         \* the filesystem when the run began (history)
    opts,        \* the arguments of organize_media
    previous,    \* the runs made before this one with the same arguments: the
                 \* plan and results of each and the filesystem it left (history)
    probe,       \* the result of the immutable-flag probe, while it is read: {} or
                 \* one result
    batches,     \* the lists of photos handed to the metadata provider so far, one
                 \* for each call (history)
    response,    \* the line the operator typed at the prompt, while it is read:
                 \* {} or one string
    pc,          \* where the run is: "start", "flags", "probed", "prompt", "photos", "videos", "plan",
                 \* "execute", then "done" (the report was reached) or an early
                 \* return: "invalid" (a root is no directory), "declined" (the
                 \* operator's answer), "failed" (the photo metadata)
    photos,      \* discover_files: the photos
    videos,      \* discover_files: the videos
    photo_dates, \* extract_photo_dates: results so far
    file_dates,  \* the resolved files, in insertion order, with their dates
    errors,      \* the (file, message) error list
    idx,         \* the position of the current loop
    moves,       \* the plan: (source, target) moves
    duplicates,  \* the plan: (source, target) duplicates
    tasks,       \* the pool's futures, one per move: state, result, and what
                 \* the environment did to the move (history)
    move_errors, \* the count of failed moves
    injected,    \* failures the environment injected so far
    ret          \* the value organize_media returned: {} while it runs, then {0} or {1}

vars == <<fs, fs0, opts, previous, probe, batches, response, pc, photos, videos, photo_dates, file_dates, errors, idx,
          moves, duplicates, tasks, move_errors, injected, ret>>

\* ThreadPoolExecutor(max_workers=8)
max_workers == 8

\* organize_media has been called and has done nothing yet.
Started ==
    /\ fs0 = fs
    /\ previous = <<>>
    /\ probe = {}
    /\ batches = <<>>
    /\ response = {}
    /\ pc = "start"
    /\ photos = <<>>
    /\ videos = <<>>
    /\ photo_dates = <<>>
    /\ file_dates = <<>>
    /\ errors = <<>>
    /\ idx = 0
    /\ moves = <<>>
    /\ duplicates = <<>>
    /\ tasks = <<>>
    /\ move_errors = 0
    /\ injected = 0
    /\ ret = {}

Init ==
    /\ \E o \in Options, layout \in PhotoLayouts, video \in SUBSET VideoContents :
         /\ Cardinality(video) <= 1
         /\ Len(layout) + Cardinality(video) <= MaxFiles
         \* A batch size beyond the number of photos behaves as that number.
         /\ o.batch_size > 1 => o.batch_size <= Len(layout)
         \* With the flag check skipped a run goes on as one whose probe finds
         \* nothing: dry runs do for it.
         /\ o.skip_flag_check => o.dry_run
         \* A root that is no directory ends the run at once: small trees do.
         /\ (o.source_dir # SourceRoot \/ o.target_dir # TargetRoot)
               => (video = {} /\ Len(layout) <= 1 /\ o.batch_size = 1)
         /\ \E tree \in TargetTrees(o.group_by_extension) :
              /\ (\A i \in DOMAIN layout : layout[i].stamp # StampDay1)
                    => tree = Dirs({TargetRoot})
              /\ fs = SourceTree(layout, video) @@ tree
         /\ opts = o
    /\ Started

\* What may lie below the source root in the runs over varied trees: regular
\* files with each of the extensions, in either case and at any depth; regular
\* files that are no media; a symbolic link to the first photo (which dangles
\* when the photo is absent); a directory with the name of a video.
Entry(path, node) == [path |-> SourceRoot \o path, node |-> node]
TreeEntries ==
    {Entry(<<"IMG.JPG">>, FileNode(Content(StampDay1, 1))),
     Entry(<<"d1", "b.Jpeg">>, FileNode(Content(StampDay2, 1))),
     Entry(<<"d1", "sub", "c.arw">>, FileNode(Content(StampDay1, 2))),
     Entry(<<"d1", "e.sr2">>, FileNode(Content(StampDay2, 2))),
     Entry(<<"d1", "f.RAF">>, FileNode(Content("", 1))),
     Entry(<<"d2", "V.MOV">>, FileNode(Content(StampVideo, 1))),
     Entry(<<"d2", "w.mp4">>, FileNode(Content(StampVideo, 2))),
     Entry(<<"d2", "n.txt">>, FileNode(Content("", 1))),
     Entry(<<"d2", "jpg">>, FileNode(Content(StampDay1, 1))),
     Entry(<<"d2", "p.jpgx">>, FileNode(Content(StampDay1, 1))),
     Entry(<<"d2", "l.jpg">>, LinkNode(SourceRoot \o <<"IMG.JPG">>)),
     Entry(<<"d2", "d.mov">>, DirNode)}

\* The filesystem with the entries E below the source root and an empty target.
VariedTree(E) ==
    LET entries == [p \in {e.path : e \in E} |-> (CHOOSE e \in E : e.path = p).node]
        dirs == UNION {Prefixes(Parent(e.path)) : e \in E}
    IN  entries @@ Dirs(dirs \cup {SourceRoot, TargetRoot})

\* The runs over varied trees: both roots are directories, photos are read one
\* per batch, and nothing lies in the target.  The flag check is made in the
\* dry runs.  A live run has at most two entries to move: more of them add
\* orders of the same moves only.
InitTree ==
    /\ \E E \in SUBSET TreeEntries, group, dry \in BOOLEAN :
         /\ Cardinality(E) <= MaxEntries
         /\ ~dry => Cardinality(E) <= 2
         /\ fs = VariedTree(E)
         /\ opts = [source_dir |-> SourceRoot, target_dir |-> TargetRoot,
                    group_by_extension |-> group, dry_run |-> dry, batch_size |-> 1,
                    skip_flag_check |-> ~dry, check_duplicates |-> FALSE,
                    overwrite |-> FALSE]
    /\ Started

\* ------------------------------------------------------------- the run

\* Mutant: the report always ends with status 0.
exit_status_zero(errs) == 0

\* The value organize_media returns after its report: 1 when the error list is
\* not empty.
exit_status(errs) == IF errs # <<>> THEN 1 ELSE 0

\* The phase that follows discovery and the flag check: "if photos:",
\* "if videos:", then the planning loop.
after_flags(ph, vi) ==
    IF ph # <<>> THEN "photos" ELSE IF vi # <<>> THEN "videos" ELSE "plan"
after_photos(vi) == IF vi # <<>> THEN "videos" ELSE "plan"

\* Lines 240-250: the two roots are checked, then the files are discovered.
Begin ==
    /\ pc = "start"
    /\ IF ~is_dir(fs, opts.source_dir) \/ ~is_dir(fs, opts.target_dir)
       THEN /\ pc' = "invalid"
            /\ ret' = {1}
            /\ UNCHANGED <<photos, videos>>
       ELSE /\ pc' = "flags"
            /\ photos' = discover_photos(fs, opts.source_dir)
            /\ videos' = discover_videos(fs, opts.source_dir)
            /\ UNCHANGED ret
    /\ UNCHANGED <<fs, fs0, opts, previous, probe, batches, response, photo_dates, file_dates, errors, idx, moves,
                   duplicates, tasks, move_errors, injected>>

\* What the operator may type at the prompt.
Responses == {"y", "yes", "YES", " y ", "n", ""}

\* Mutant: every answer is taken for a confirmation.
accepts_any(r) == TRUE

\* The prompt's test: response.strip().lower() in ('y', 'yes').
accepts(r) == Lower(Strip(r)) \in {"y", "yes"}

\* What subprocess.run may give for the probe command: its output (nothing, a
\* blank line, the path of a flagged file), or an exception: the command is
\* not there, it ran longer than the timeout, or it could not be run.
ProbeResult(raised, stdout) == [raised |-> raised, stdout |-> stdout]
ProbeResults ==
    {ProbeResult(None, out) : out \in {"", " \n", "S/d1/a.jpg\n"}}
        \cup {ProbeResult(e, "") : e \in {"FileNotFoundError", "TimeoutExpired", "OSError"}}

\* Mutant: a probe that fails is taken for flagged files.
check_immutable_flags_strict(result) ==
    result.raised # None \/ Strip(result.stdout) # ""

\* Lines 57-75: check_immutable_flags, on what the probe command gave:
\* bool(result.stdout.strip()), and False on any exception.
check_immutable_flags(result) ==
    IF result.raised # None THEN FALSE ELSE Strip(result.stdout) # ""

\* Lines 252-253 and 64-69: unless the check is skipped, the probe command is
\* run; its result is the environment's.
Probe ==
    /\ pc = "flags"
    /\ IF opts.skip_flag_check
       THEN pc' = after_flags(photos, videos) /\ UNCHANGED probe
       ELSE pc' = "probed" /\ \E result \in ProbeResults : probe' = {result}
    /\ idx' = 0
    /\ UNCHANGED <<fs, fs0, opts, previous, batches, response, photos, videos, photo_dates,
                   file_dates, errors, moves, duplicates, tasks, move_errors,
                   injected, ret>>

\* Lines 253-260: the immutable-flag check on the probe's result.  When files
\* are found the run stops at the prompt, where the operator types a line.
\* The result is not read again.
FlagCheck ==
    /\ pc = "probed"
    /\ IF \E result \in probe : check_immutable_flags(result)
       THEN /\ pc' = "prompt"
            /\ \E typed \in Responses : response' = {typed}
       ELSE /\ pc' = after_flags(photos, videos)
            /\ UNCHANGED response
    /\ probe' = {}
    /\ UNCHANGED <<fs, fs0, opts, previous, batches, photos, videos, photo_dates, file_dates,
                   errors, idx, moves, duplicates, tasks, move_errors, injected, ret>>

\* Lines 260-263: the line typed is tested; the run returns 0 unless it is a
\* confirmation.  The line is not read again once the run goes on.
Confirm ==
    /\ pc = "prompt"
    /\ IF \E r \in response : accepts(r)
       THEN pc' = after_flags(photos, videos) /\ response' = {} /\ UNCHANGED ret
       ELSE pc' = "declined" /\ ret' = {0} /\ UNCHANGED response
    /\ UNCHANGED <<fs, fs0, opts, previous, probe, batches, photos, videos, photo_dates, file_dates, errors,
                   idx, moves, duplicates, tasks, move_errors, injected>>

\* The files of one batch: files[i:i + batch_size], i counted from 0.
batch(files, i, batch_size) ==
    SubSeq(files, i + 1, IF i + batch_size < Len(files) THEN i + batch_size ELSE Len(files))

\* The photos of a batch that get a date, with it.
batch_dates(f, b) ==
    LET ok == {k \in 1..Len(b) : photo_date(Stat(f, b[k]).data.stamp).kind = "date"}
        F[k \in 0..Len(b)] ==
            IF k = 0 THEN <<>>
            ELSE IF k \in ok
                 THEN Append(F[k - 1], <<b[k], photo_date(Stat(f, b[k]).data.stamp).date>>)
                 ELSE F[k - 1]
    IN  F[Len(b)]

\* A photo of the batch has a value that is no timestamp: photo_date raises
\* ValueError, which only the outer handler of extract_photo_dates catches.
batch_raises(f, b) ==
    \E k \in 1..Len(b) : photo_date(Stat(f, b[k]).data.stamp).kind = "ValueError"

\* Mutant: the photos without a date are not recorded.
missing_photos_dropped(ph, dates) == <<>>

\* Lines 277-279: the photos without a date are errors.
missing_photos(ph, dates) ==
    LET have == {dates[k][1] : k \in 1..Len(dates)}
        F[k \in 0..Len(ph)] ==
            IF k = 0 THEN <<>>
            ELSE IF ph[k] \in have THEN F[k - 1]
                 ELSE Append(F[k - 1], <<ph[k], "No EXIF:DateTimeOriginal found">>)
    IN  F[Len(ph)]

\* Lines 270-282 and 100-125: one step of the photo phase.  range(0, total,
\* batch_size) raises ValueError when batch_size is 0, which the handler of
\* line 123 turns into the failure of the run, and is empty when batch_size is
\* negative: the loop body never runs and no photo gets a date.  Otherwise the
\* step is one call of the metadata provider on one batch.  The call may
\* fail; a failure, or a ValueError on one of its photos, ends the run with
\* status 1.  After the last batch the dates are merged into file_dates and
\* the photos without a date are recorded.
PhotoBatch ==
    /\ pc = "photos"
    /\ IF opts.batch_size = 0
       THEN /\ pc' = "failed"
            /\ ret' = {1}
            /\ UNCHANGED <<photo_dates, file_dates, errors, idx, batches, injected>>
       ELSE IF opts.batch_size < 0
       THEN /\ errors' = errors \o missing_photos(photos, <<>>)
            /\ idx' = 0
            /\ pc' = after_photos(videos)
            /\ UNCHANGED <<photo_dates, file_dates, batches, injected, ret>>
       ELSE LET b == batch(photos, idx, opts.batch_size)
                last == idx + opts.batch_size >= Len(photos)
                dates == photo_dates \o batch_dates(fs, b)
            IN  \E provider_fails \in BOOLEAN :
                  /\ provider_fails => injected < MaxInjected
                  /\ injected' = IF provider_fails THEN injected + 1 ELSE injected
                  /\ batches' = Append(batches, b)
                  /\ IF provider_fails \/ batch_raises(fs, b)
                     THEN /\ pc' = "failed"
                          /\ ret' = {1}
                          /\ UNCHANGED <<photo_dates, file_dates, errors, idx>>
                     ELSE /\ photo_dates' = dates
                          /\ UNCHANGED ret
                          /\ IF last
                             THEN /\ file_dates' = file_dates \o dates
                                  /\ errors' = errors \o missing_photos(photos, dates)
                                  /\ idx' = 0
                                  /\ pc' = after_photos(videos)
                             ELSE /\ idx' = idx + opts.batch_size
                                  /\ UNCHANGED <<file_dates, errors, pc>>
    /\ UNCHANGED <<fs, fs0, opts, previous, probe, response, photos, videos, moves,
                   duplicates, tasks, move_errors>>

\* Lines 285-291: one video is probed.
ResolveVideo ==
    /\ pc = "videos"
    /\ LET video == videos[idx + 1]
           date == extract_video_date(Stat(fs, video).data.stamp)
       IN  IF date.kind = "date"
           THEN /\ file_dates' = Append(file_dates, <<video, date.date>>)
                /\ UNCHANGED errors
           ELSE /\ errors' = Append(errors, <<video, "No creation_time found">>)
                /\ UNCHANGED file_dates
    /\ IF idx + 1 = Len(videos)
       THEN idx' = 0 /\ pc' = "plan"
       ELSE idx' = idx + 1 /\ UNCHANGED pc
    /\ UNCHANGED <<fs, fs0, opts, previous, probe, batches, response, photos, videos, photo_dates, moves, duplicates,
                   tasks, move_errors, injected, ret>>

\* Mutant: a live run moves a file as soon as it is planned as a move.
PlanStep_moving_at_once ==
    /\ pc = "plan"
    /\ idx < Len(file_dates)
    /\ LET file_path == file_dates[idx + 1][1]
           date == file_dates[idx + 1][2]
           target_path == calculate_target_path(file_path, date, opts.target_dir,
                                                opts.group_by_extension)
           plan == plan_file(fs, file_path, target_path, opts.check_duplicates,
                             opts.overwrite)
       IN  /\ moves' = IF plan.action = "move"
                       THEN Append(moves, <<file_path, target_path>>) ELSE moves
           /\ duplicates' = IF plan.action = "duplicate"
                            THEN Append(duplicates, <<file_path, target_path>>)
                            ELSE duplicates
           /\ errors' = IF plan.action = "error"
                        THEN Append(errors, <<file_path, plan.reason>>) ELSE errors
           /\ fs' = IF plan.action = "move" /\ ~opts.dry_run
                    THEN perform_move(fs, file_path, target_path, "none").fs
                    ELSE fs
    /\ idx' = idx + 1
    /\ UNCHANGED <<fs0, opts, previous, probe, batches, response, pc, photos, videos, photo_dates, file_dates, tasks,
                   move_errors, injected, ret>>

\* Lines 297-315: one iteration of the planning loop.
PlanStep ==
    /\ pc = "plan"
    /\ idx < Len(file_dates)
    /\ LET file_path == file_dates[idx + 1][1]
           date == file_dates[idx + 1][2]
           target_path == calculate_target_path(file_path, date, opts.target_dir,
                                                opts.group_by_extension)
           plan == plan_file(fs, file_path, target_path, opts.check_duplicates,
                             opts.overwrite)
       IN  /\ moves' = IF plan.action = "move"
                       THEN Append(moves, <<file_path, target_path>>) ELSE moves
           /\ duplicates' = IF plan.action = "duplicate"
                            THEN Append(duplicates, <<file_path, target_path>>)
                            ELSE duplicates
           /\ errors' = IF plan.action = "error"
                        THEN Append(errors, <<file_path, plan.reason>>) ELSE errors
    /\ idx' = idx + 1
    /\ UNCHANGED <<fs, fs0, opts, previous, probe, batches, response, pc, photos, videos, photo_dates, file_dates, tasks,
                   move_errors, injected, ret>>

\* Lines 323-335 and 366-373: the plan is complete and the run is a dry run:
\* the plan is printed and the status returned.
DryRun ==
    /\ pc = "plan"
    /\ idx = Len(file_dates)
    /\ opts.dry_run
    /\ pc' = "done"
    /\ ret' = {exit_status(errors)}
    /\ UNCHANGED <<fs, fs0, opts, previous, probe, batches, response, photos, videos, photo_dates, file_dates, errors,
                   idx, moves, duplicates, tasks, move_errors, injected>>

\* Mutant: the moves are submitted in a dry run too.
Submit_in_dry_run ==
    /\ pc = "plan"
    /\ idx = Len(file_dates)
    /\ pc' = "execute"
    /\ tasks' = [t \in 1..Len(moves) |->
                    [st |-> "queued", error |-> None, inject |-> "none"]]
    /\ UNCHANGED <<fs, fs0, opts, previous, probe, batches, response, photos, videos, photo_dates, file_dates, errors,
                   idx, moves, duplicates, move_errors, injected, ret>>

\* Lines 342-347: the plan is complete and the run is live: every move is
\* submitted to the pool.
Submit ==
    /\ pc = "plan"
    /\ idx = Len(file_dates)
    /\ ~opts.dry_run
    /\ pc' = "execute"
    /\ tasks' = [t \in 1..Len(moves) |->
                    [st |-> "queued", error |-> None, inject |-> "none"]]
    /\ UNCHANGED <<fs, fs0, opts, previous, probe, batches, response, photos, videos, photo_dates, file_dates, errors,
                   idx, moves, duplicates, move_errors, injected, ret>>

\* The futures that have run to their end.
finished == {t \in DOMAIN tasks : tasks[t].st \in {"done", "collected"}}
\* Mutant: every task of the queue has a worker at once.
has_worker_unbounded(t) == TRUE

\* The pool takes its queue in order, max_workers at a time: a task has a worker
\* once fewer than max_workers of the tasks before it are unfinished.
has_worker(t) == Cardinality({u \in 1..(t - 1) : u \notin finished}) < max_workers

\* Line 185 in a worker: target.parent.mkdir(parents=True, exist_ok=True).
TaskMkdir(t) ==
    /\ pc = "execute"
    /\ tasks[t].st = "queued"
    /\ has_worker(t)
    /\ LET dir == Parent(moves[t][2])
       IN  IF mkdir_ok(fs, dir)
           THEN /\ fs' = mkdir_parents(fs, dir)
                /\ tasks' = [tasks EXCEPT ![t].st = "moving"]
           ELSE /\ tasks' = [tasks EXCEPT ![t].st = "done", ![t].error = "Move failed"]
                /\ UNCHANGED fs
    /\ UNCHANGED <<fs0, opts, previous, probe, batches, response, pc, photos, videos, photo_dates, file_dates, errors,
                   idx, moves, duplicates, move_errors, injected, ret>>

\* Lines 186-191 in a worker: shutil.move, and the result of perform_move.
TaskMove(t) ==
    /\ pc = "execute"
    /\ tasks[t].st = "moving"
    /\ \E inject \in {"none", "denied", "unlink", "vanished"} :
         /\ inject # "none" => injected < MaxInjected
         /\ injected' = IF inject # "none" THEN injected + 1 ELSE injected
         /\ LET r == shutil_move(fs, moves[t][1], moves[t][2], inject)
            IN  /\ fs' = r.fs
                /\ tasks' = [tasks EXCEPT ![t] = [st |-> "done", error |-> r.error,
                                                  inject |-> inject]]
    /\ UNCHANGED <<fs0, opts, previous, probe, batches, response, pc, photos, videos, photo_dates, file_dates, errors,
                   idx, moves, duplicates, move_errors, ret>>

\* Mutant: the result of a future is taken without a look at its error.
Collect_unrecorded(t) ==
    /\ pc = "execute"
    /\ tasks[t].st = "done"
    /\ tasks' = [tasks EXCEPT ![t].st = "collected"]
    /\ UNCHANGED <<fs, fs0, opts, previous, probe, batches, response, pc, photos, videos, photo_dates, file_dates, errors,
                   idx, moves, duplicates, move_errors, injected, ret>>

\* Lines 351-356: the main thread takes one completed future.
Collect(t) ==
    /\ pc = "execute"
    /\ tasks[t].st = "done"
    /\ tasks' = [tasks EXCEPT ![t].st = "collected"]
    /\ IF tasks[t].error # None
       THEN /\ errors' = Append(errors, <<moves[t][1], tasks[t].error>>)
            /\ move_errors' = move_errors + 1
       ELSE UNCHANGED <<errors, move_errors>>
    /\ UNCHANGED <<fs, fs0, opts, previous, probe, batches, response, pc, photos, videos, photo_dates, file_dates, idx,
                   moves, duplicates, injected, ret>>

\* Mutant: when the run ends the sources reported as duplicates are deleted.
Finish_deleting_duplicates ==
    /\ pc = "execute"
    /\ \A t \in DOMAIN tasks : tasks[t].st = "collected"
    /\ pc' = "done"
    /\ ret' = {exit_status(errors)}
    /\ fs' = [q \in DOMAIN fs \ {duplicates[d][1] : d \in 1..Len(duplicates)} |-> fs[q]]
    /\ UNCHANGED <<fs0, opts, previous, probe, batches, response, photos, videos, photo_dates,
                   file_dates, errors, idx, moves, duplicates, tasks, move_errors,
                   injected>>

\* Lines 358-373: every future has been taken; the report and the status.
Finish ==
    /\ pc = "execute"
    /\ \A t \in DOMAIN tasks : tasks[t].st = "collected"
    /\ pc' = "done"
    /\ ret' = {exit_status(errors)}
    /\ UNCHANGED <<fs, fs0, opts, previous, probe, batches, response, photos, videos, photo_dates, file_dates, errors,
                   idx, moves, duplicates, tasks, move_errors, injected>>

Next ==
    \/ Begin
    \/ Probe
    \/ FlagCheck
    \/ Confirm
    \/ PhotoBatch
    \/ ResolveVideo
    \/ PlanStep
    \/ DryRun
    \/ Submit
    \/ \E t \in DOMAIN tasks : TaskMkdir(t)
    \/ \E t \in DOMAIN tasks : TaskMove(t)
    \/ \E t \in DOMAIN tasks : Collect(t)
    \/ Finish

Spec == Init /\ [][Next]_vars

\* The trees of the repeated runs: a.jpg in the first k subdirectories, the
\* first on the first day and the second on the second day, or without a
\* date, and at most one video.  No two files have the same target.
RerunLayouts ==
    {c \in UNION {[1..k -> {Content(StampDay1, 1), Content(StampDay2, 1), Content("", 1)}]
                    : k \in 0..2} :
        \A i \in DOMAIN c : c[i].stamp \in {"", IF i = 1 THEN StampDay1 ELSE StampDay2}}

\* The repeated runs: the target root is a directory apart from the source
\* root, or the source root itself (the files are put in order in place).
\* Photos are read one per batch; the flag check is made in the dry runs.
InitRerun ==
    /\ \E layout \in RerunLayouts, video \in SUBSET {Content(StampVideo, 1)},
          target \in {TargetRoot, SourceRoot}, dry, dups, over \in BOOLEAN :
         /\ Len(layout) + Cardinality(video) <= MaxFiles
         /\ fs = SourceTree(layout, video) @@ Dirs({SourceRoot, TargetRoot})
         /\ opts = [source_dir |-> SourceRoot, target_dir |-> target,
                    group_by_extension |-> FALSE, dry_run |-> dry, batch_size |-> 1,
                    skip_flag_check |-> ~dry, check_duplicates |-> dups,
                    overwrite |-> over]
    /\ Started

\* Lines 376-436: the operator calls the tool again with the same arguments,
\* on the filesystem the run before has left.
Rerun ==
    /\ pc = "done"
    /\ Len(previous) + 1 < MaxRuns
    /\ previous' = Append(previous,
                          [photos |-> photos, videos |-> videos, moves |-> moves,
                           duplicates |-> duplicates, tasks |-> tasks,
                           errors |-> errors, ret |-> ret, fs0 |-> fs0, fs |-> fs])
    /\ fs0' = fs
    /\ response' = {}
    /\ batches' = <<>>
    /\ pc' = "start"
    /\ photos' = <<>>
    /\ videos' = <<>>
    /\ photo_dates' = <<>>
    /\ file_dates' = <<>>
    /\ errors' = <<>>
    /\ idx' = 0
    /\ moves' = <<>>
    /\ duplicates' = <<>>
    /\ tasks' = <<>>
    /\ move_errors' = 0
    /\ ret' = {}
    /\ UNCHANGED <<fs, opts, probe, injected>>

NextRerun ==
    \/ Next
    \/ Rerun

\* Runs repeated with the same arguments.
SpecRerun == InitRerun /\ [][NextRerun]_vars

\* One photo more than the pool has workers, all of one day, in one directory.
PoolPhoto(i) == SourceRoot \o <<"d1", "p" \o DigitChar(i) \o ".jpg">>
PoolTree ==
    [p \in {PoolPhoto(i) : i \in 1..(max_workers + 1)} |-> FileNode(Content(StampDay1, 1))]
        @@ Dirs({SourceRoot, SourceRoot \o <<"d1">>, TargetRoot})

\* The runs that fill the pool: a live run over the photos, read in one batch,
\* in which the environment fails no call; and dry runs, with the flag check,
\* over the photos and a video.
InitPool ==
    /\ \E dry \in BOOLEAN :
         /\ fs = IF dry THEN (VideoPath :> FileNode(Content(StampVideo, 1))) @@ PoolTree
                 ELSE PoolTree
         /\ opts = [source_dir |-> SourceRoot, target_dir |-> TargetRoot,
                    group_by_extension |-> FALSE, dry_run |-> dry,
                    batch_size |-> max_workers + 1, skip_flag_check |-> ~dry,
                    check_duplicates |-> FALSE, overwrite |-> FALSE]
    /\ fs0 = fs
    /\ previous = <<>>
    /\ probe = {}
    /\ batches = <<>>
    /\ response = {}
    /\ pc = "start"
    /\ photos = <<>>
    /\ videos = <<>>
    /\ photo_dates = <<>>
    /\ file_dates = <<>>
    /\ errors = <<>>
    /\ idx = 0
    /\ moves = <<>>
    /\ duplicates = <<>>
    /\ tasks = <<>>
    /\ move_errors = 0
    /\ injected = MaxInjected
    /\ ret = {}

\* A run that fills the pool.
SpecPool == InitPool /\ [][Next]_vars

\* Lines 401-406: --batch-size is read with type=int and no further test, so
\* every integer is accepted: negative ones, zero, the sizes below and at the
\* number of photos.
BatchSizes == (0 - 1)..MaxBatch

\* The photos of the runs that vary the batch size: a.jpg in the first k
\* subdirectories, each with a timestamp, without one, or with one that is no
\* timestamp.
BatchLayouts ==
    UNION {[1..k -> {Content(StampDay1, 1), Content("", 1), Content(StampBad, 1)}]
              : k \in 0..MaxBatch}

\* The runs that vary the batch size: dry runs, with the flag check and
\* possibly a video, and live runs.
InitBatch ==
    /\ \E layout \in BatchLayouts, video \in SUBSET {Content(StampVideo, 1)},
          size \in BatchSizes, dry \in BOOLEAN :
         /\ ~dry => video = {}
         /\ fs = SourceTree(layout, video) @@ Dirs({SourceRoot, TargetRoot})
         /\ opts = [source_dir |-> SourceRoot, target_dir |-> TargetRoot,
                    group_by_extension |-> FALSE, dry_run |-> dry, batch_size |-> size,
                    skip_flag_check |-> ~dry, check_duplicates |-> FALSE,
                    overwrite |-> FALSE]
    /\ Started

\* The runs over every batch size.
SpecBatch == InitBatch /\ [][Next]_vars

\* organize_media.py, lines 53-83: extract_photo_dates of the variant, which
\* hands all the photos to the metadata provider in one call.  It raises when
\* the call fails or one of the values is no timestamp.
om_extract_photo_dates(f, files, provider_fails) ==
    IF files = <<>> THEN [raised |-> FALSE, results |-> <<>>]
    ELSE IF provider_fails \/ batch_raises(f, files)
         THEN [raised |-> TRUE, results |-> <<>>]
         ELSE [raised |-> FALSE, results |-> batch_dates(f, files)]

\* organize_media.py, lines 175-188: the photo phase of the variant: the run
\* fails when the resolution raises; else the photos without a date are
\* errors.
om_photo_phase(f, ph, provider_fails) ==
    LET r == om_extract_photo_dates(f, ph, provider_fails)
    IN  [failed |-> r.raised,
         photo_dates |-> r.results,
         errors |-> IF r.raised THEN <<>> ELSE missing_photos(ph, r.results)]

\* organize_media.py, lines 131-145: check_file_conflict of the variant, which
\* always compares the bytes: None when the target is absent and when it
\* holds the same bytes.
om_check_file_conflict(f, source, target) ==
    IF is_file(f, Parent(target)) THEN "Target directory is a file"
    ELSE IF exists(f, target)
         THEN IF filecmp_cmp(f, source, target)
              THEN None
              ELSE "Target exists with different contents"
         ELSE None

\* organize_media.py, lines 207-214: the classification of one resolved file
\* by the variant.  The bytes are compared again only under a conflict.
om_plan_file(f, file_path, target_path) ==
    LET conflict == om_check_file_conflict(f, file_path, target_path)
    IN  IF conflict # None
        THEN IF exists(f, target_path) /\ filecmp_cmp(f, file_path, target_path)
             THEN [action |-> "duplicate", reason |-> None]
             ELSE [action |-> "error", reason |-> conflict]
        ELSE [action |-> "move", reason |-> None]

\* organize_media.py, lines 158-168: the two roots are checked, then the
\* files are discovered; the variant has no flag check.
OmBegin ==
    /\ pc = "start"
    /\ IF ~is_dir(fs, opts.source_dir) \/ ~is_dir(fs, opts.target_dir)
       THEN /\ pc' = "invalid"
            /\ ret' = {1}
            /\ UNCHANGED <<photos, videos>>
       ELSE /\ photos' = discover_photos(fs, opts.source_dir)
            /\ videos' = discover_videos(fs, opts.source_dir)
            /\ pc' = after_flags(photos', videos')
            /\ UNCHANGED ret
    /\ UNCHANGED <<fs, fs0, opts, previous, probe, batches, response, photo_dates,
                   file_dates, errors, idx, moves, duplicates, tasks, move_errors,
                   injected>>

\* organize_media.py, lines 175-188: the photos are resolved in one call.
OmPhotos ==
    /\ pc = "photos"
    /\ \E provider_fails \in BOOLEAN :
         /\ provider_fails => injected < MaxInjected
         /\ injected' = IF provider_fails THEN injected + 1 ELSE injected
         /\ batches' = Append(batches, photos)
         /\ LET r == om_photo_phase(fs, photos, provider_fails)
            IN  IF r.failed
                THEN /\ pc' = "failed"
                     /\ ret' = {1}
                     /\ UNCHANGED <<photo_dates, file_dates, errors>>
                ELSE /\ photo_dates' = r.photo_dates
                     /\ file_dates' = file_dates \o r.photo_dates
                     /\ errors' = errors \o r.errors
                     /\ pc' = after_photos(videos)
                     /\ UNCHANGED ret
    /\ idx' = 0
    /\ UNCHANGED <<fs, fs0, opts, previous, probe, response, photos, videos, moves,
                   duplicates, tasks, move_errors>>

\* organize_media.py, lines 204-214: one resolved file is classified.
OmPlanStep ==
    /\ pc = "plan"
    /\ idx < Len(file_dates)
    /\ LET file_path == file_dates[idx + 1][1]
           date == file_dates[idx + 1][2]
           target_path == calculate_target_path(file_path, date, opts.target_dir,
                                                opts.group_by_extension)
           plan == om_plan_file(fs, file_path, target_path)
       IN  /\ moves' = IF plan.action = "move"
                       THEN Append(moves, <<file_path, target_path>>) ELSE moves
           /\ duplicates' = IF plan.action = "duplicate"
                            THEN Append(duplicates, <<file_path, target_path>>)
                            ELSE duplicates
           /\ errors' = IF plan.action = "error"
                        THEN Append(errors, <<file_path, plan.reason>>) ELSE errors
    /\ idx' = idx + 1
    /\ UNCHANGED <<fs, fs0, opts, previous, probe, batches, response, pc, photos, videos,
                   photo_dates, file_dates, tasks, move_errors, injected, ret>>

\* organize_media.py, lines 235-238: the plan is complete and the run is
\* live: the moves begin.
OmStartMoves ==
    /\ pc = "plan"
    /\ idx = Len(file_dates)
    /\ ~opts.dry_run
    /\ pc' = "execute"
    /\ idx' = 0
    /\ UNCHANGED <<fs, fs0, opts, previous, probe, batches, response, photos, videos,
                   photo_dates, file_dates, errors, moves, duplicates, tasks,
                   move_errors, injected, ret>>

\* organize_media.py, lines 240-250: the moves are made one after the other
\* in the order of the plan; a move that fails is recorded and the loop goes
\* on.
OmMove ==
    /\ pc = "execute"
    /\ idx < Len(moves)
    /\ \E inject \in {"none", "denied", "unlink", "vanished"} :
         /\ inject # "none" => injected < MaxInjected
         /\ injected' = IF inject # "none" THEN injected + 1 ELSE injected
         /\ LET r == perform_move(fs, moves[idx + 1][1], moves[idx + 1][2], inject)
            IN  /\ fs' = r.fs
                /\ tasks' = Append(tasks, [st |-> "collected", error |-> r.error,
                                           inject |-> inject])
                /\ IF r.error # None
                   THEN /\ errors' = Append(errors, <<moves[idx + 1][1], r.error>>)
                        /\ move_errors' = move_errors + 1
                   ELSE UNCHANGED <<errors, move_errors>>
    /\ idx' = idx + 1
    /\ UNCHANGED <<fs0, opts, previous, probe, batches, response, pc, photos, videos,
                   photo_dates, file_dates, moves, duplicates, ret>>

\* organize_media.py, lines 252-267: the moves are over; the report and the
\* status.
OmFinish ==
    /\ pc = "execute"
    /\ idx = Len(moves)
    /\ pc' = "done"
    /\ ret' = {exit_status(errors)}
    /\ UNCHANGED <<fs, fs0, opts, previous, probe, batches, response, photos, videos,
                   photo_dates, file_dates, errors, idx, moves, duplicates, tasks,
                   move_errors, injected>>

\* The steps of the variant.  Its video resolution (lines 191-198) and its dry
\* run (lines 222-233) are, statement for statement, those of archivist.py.
NextVariant ==
    \/ OmBegin
    \/ OmPhotos
    \/ ResolveVideo
    \/ OmPlanStep
    \/ DryRun
    \/ OmStartMoves
    \/ OmMove
    \/ OmFinish

\* The arguments of the variant: the two roots, the grouping, the dry run.
\* The other fields of the record are not read by its steps.
InitVariant ==
    /\ \E group, dry \in BOOLEAN, layout \in PhotoLayouts, video \in SUBSET VideoContents :
         /\ Cardinality(video) <= 1
         /\ Len(layout) + Cardinality(video) <= MaxFiles
         /\ \E tree \in TargetTrees(group) :
              /\ (\A i \in DOMAIN layout : layout[i].stamp # StampDay1)
                    => tree = Dirs({TargetRoot})
              /\ fs = SourceTree(layout, video) @@ tree
         /\ opts = [source_dir |-> SourceRoot, target_dir |-> TargetRoot,
                    group_by_extension |-> group, dry_run |-> dry, batch_size |-> 1,
                    skip_flag_check |-> TRUE, check_duplicates |-> TRUE,
                    overwrite |-> FALSE]
    /\ Started

\* The runs of organize_media.py.
SpecVariant == InitVariant /\ [][NextVariant]_vars

\* The same run, over the varied trees.
SpecTree == InitTree /\ [][Next]_vars

\* ------------------------------------------------------------- claims

\* The files discover_files returned.
Discovered == Range(photos) \cup Range(videos)

\* The resolved files the planning loop has classified so far.
Planned ==
    IF pc = "plan" THEN idx
    ELSE IF pc \in {"execute", "done"} THEN Len(file_dates) ELSE 0

\* The k-th resolved file and its computed target path.
source_of(k) == file_dates[k][1]
target_of(k) ==
    calculate_target_path(file_dates[k][1], file_dates[k][2], opts.target_dir,
                          opts.group_by_extension)

\* A regular file with content c is at path p.
ContentAt(f, p, c) == Stat(f, p).kind = "file" /\ Stat(f, p).data = c

ResolutionMessages == {"No EXIF:DateTimeOriginal found", "No creation_time found"}
PlanningMessages == {"Target directory is a file", "Target already exists"}
MoveMessages == {"Permission denied", "Move failed"}

\* The entries of the error list whose message is in M, and their files.
ErrorsIn(M) == {k \in 1..Len(errors) : errors[k][2] \in M}
FilesIn(M) == {errors[k][1] : k \in ErrorsIn(M)}

LiveRunOver == pc = "done" /\ ~opts.dry_run

\* No other process removed a source during the run.
NoneVanished == \A t \in DOMAIN tasks : tasks[t].inject # "vanished"

\* C1 (data safety): after a live run without overwrite, the content each
\* discovered file had at discovery is still on the filesystem, at the file's
\* source path or at its computed target path.
C1_DataSafety ==
    (LiveRunOver /\ ~opts.overwrite /\ NoneVanished) =>
        \A p \in Discovered :
            \/ ContentAt(fs, p, Stat(fs0, p).data)
            \/ \E k \in 1..Len(file_dates) :
                 source_of(k) = p /\ ContentAt(fs, target_of(k), Stat(fs0, p).data)

\* C2 (disjointness): no two entries of moves have the same destination path.
C2_DisjointMoves ==
    \A i, j \in 1..Len(moves) : i # j => moves[i][2] # moves[j][2]

\* The source has a regular file, and the target is a regular file with the
\* same bytes.
Identical(f, source, target) ==
    Stat(f, source).kind = "file" /\ ContentAt(f, target, Stat(f, source).data)

MoveSources == {moves[m][1] : m \in 1..Len(moves)}
DuplicateSources == {duplicates[d][1] : d \in 1..Len(duplicates)}

\* C3 (conflict safety): without overwrite, a file whose computed target exists
\* when it is planned, unless duplicate checking is on and the two are
\* identical, gets a planning error and is not in moves.
C3_ConflictSafety ==
    ~opts.overwrite =>
        \A k \in 1..Planned :
            (/\ exists(fs0, target_of(k))
             /\ ~(opts.check_duplicates /\ Identical(fs0, source_of(k), target_of(k))))
            => /\ source_of(k) \in FilesIn(PlanningMessages)
               /\ source_of(k) \notin MoveSources

\* C3's case: duplicate checking is off and the target holds the same bytes.
C3_Witness ==
    /\ pc = "done" /\ ~opts.overwrite /\ ~opts.check_duplicates
    /\ \E k \in 1..Planned : Identical(fs0, source_of(k), target_of(k))

\* C3's other case: duplicate checking is on and the target holds other bytes.
C3_WitnessDiffers ==
    /\ pc = "done" /\ ~opts.overwrite /\ opts.check_duplicates
    /\ \E k \in 1..Planned :
         /\ is_file(fs0, target_of(k))
         /\ ~Identical(fs0, source_of(k), target_of(k))

\* C4 (duplicate classification): without overwrite and with duplicate checking,
\* a file whose computed target holds the same bytes is in duplicates, not in
\* moves and not in errors, and neither the source nor the target is touched.
C4_Duplicate ==
    (~opts.overwrite /\ opts.check_duplicates) =>
        \A k \in 1..Planned :
            Identical(fs0, source_of(k), target_of(k))
            => /\ \E d \in 1..Len(duplicates) :
                    duplicates[d] = <<source_of(k), target_of(k)>>
               /\ source_of(k) \notin MoveSources
               /\ \A e \in 1..Len(errors) : errors[e][1] # source_of(k)
               /\ Lstat(fs, source_of(k)) = Lstat(fs0, source_of(k))
               /\ Lstat(fs, target_of(k)) = Lstat(fs0, target_of(k))

\* C4's case: a live run has ended that planned a file with an identical target.
C4_Witness ==
    /\ LiveRunOver /\ ~opts.overwrite /\ opts.check_duplicates
    /\ \E k \in 1..Planned : Identical(fs0, source_of(k), target_of(k))

\* C5 (parent is a file): without overwrite, a file whose target's parent is a
\* regular file gets the error "target directory is a file", and is in neither
\* moves nor duplicates.
C5_ParentIsFile ==
    ~opts.overwrite =>
        \A k \in 1..Planned :
            is_file(fs0, Parent(target_of(k)))
            => /\ \E e \in 1..Len(errors) :
                    errors[e] = <<source_of(k), "Target directory is a file">>
               /\ source_of(k) \notin MoveSources
               /\ source_of(k) \notin DuplicateSources

\* C5's case: such a file has been planned and the run has ended.
C5_Witness ==
    /\ pc = "done" /\ ~opts.overwrite
    /\ \E k \in 1..Planned : is_file(fs0, Parent(target_of(k)))

\* C6 (overwrite mode): with overwrite, every planned file is a move to its
\* computed target, and planning adds no error and no duplicate.
C6_Overwrite ==
    opts.overwrite =>
        /\ duplicates = <<>>
        /\ ErrorsIn(PlanningMessages) = {}
        /\ Len(moves) = Planned
        /\ \A k \in 1..Planned : moves[k] = <<source_of(k), target_of(k)>>

\* C6's case: overwrite with duplicate checking, and a target that exists.
C6_Witness ==
    /\ pc \in {"execute", "done"} /\ opts.overwrite /\ opts.check_duplicates
    /\ \E k \in 1..Planned : exists(fs0, target_of(k))

\* C7 (totality): once the plan is complete every discovered file is in exactly
\* one of moves, duplicates, planning errors and resolution errors.
C7_Totality ==
    pc \in {"execute", "done"} =>
        /\ Len(moves) + Len(duplicates) + Cardinality(ErrorsIn(PlanningMessages))
              + Cardinality(ErrorsIn(ResolutionMessages))
           = Len(photos) + Len(videos)
        /\ MoveSources \cup DuplicateSources \cup FilesIn(PlanningMessages)
              \cup FilesIn(ResolutionMessages) = Discovered
        /\ Cardinality(MoveSources) + Cardinality(DuplicateSources)
              + Cardinality(FilesIn(PlanningMessages))
              + Cardinality(FilesIn(ResolutionMessages))
           = Cardinality(Discovered)

\* C7's case: a run that ended with a move and with a file that has no date.
C7_Witness ==
    /\ pc = "done" /\ Len(moves) >= 1 /\ ErrorsIn(ResolutionMessages) # {}

\* C8 (dry run): a dry run never changes the filesystem, whatever the other
\* options.
C8_DryRunNoMutation == opts.dry_run => fs = fs0

\* C8's case: a dry run with overwrite has ended with moves in its plan.
C8_Witness == pc = "done" /\ opts.dry_run /\ opts.overwrite /\ Len(moves) >= 1

\* C9 (plan/execute separation): the filesystem changes only in the execution
\* phase, when every resolved file has been classified, and from then on the
\* resolution and the plan do not change.
C9_PlanBeforeExecute ==
    [][/\ fs' # fs => (pc = "execute" /\ Planned = Len(file_dates))
       /\ pc = "execute" =>
            UNCHANGED <<photos, videos, file_dates, moves, duplicates>>]_vars

\* C9's case: the execution phase has changed the filesystem.
C9_Witness == pc = "execute" /\ fs # fs0 /\ Len(moves) >= 2

\* The moves of the plan run one after the other in plan order, with no failure
\* injected: the sources whose move fails.
seq_run[k \in 0..Len(moves)] ==
    IF k = 0 THEN [fs |-> fs0, failed |-> {}]
    ELSE LET r == perform_move(seq_run[k - 1].fs, moves[k][1], moves[k][2], "none")
         IN  [fs |-> r.fs,
              failed |-> IF r.error = None THEN seq_run[k - 1].failed
                         ELSE seq_run[k - 1].failed \cup {moves[k][1]}]

\* C10 (one outcome per move): when the execution phase has ended, every move
\* has been taken once, a failed move has exactly one error entry under its
\* source and a successful one none, and the failures are those of any other
\* completion order (of the moves run in plan order).
C10_OneOutcomePerMove ==
    LiveRunOver =>
        /\ \A t \in 1..Len(moves) :
             /\ tasks[t].st = "collected"
             /\ Cardinality({e \in ErrorsIn(MoveMessages) : errors[e][1] = moves[t][1]})
                  = IF tasks[t].error = None THEN 0 ELSE 1
        /\ move_errors = Cardinality(ErrorsIn(MoveMessages))
        /\ injected = 0 => FilesIn(MoveMessages) = seq_run[Len(moves)].failed

\* The moves that failed.
FailedMoves == {t \in DOMAIN tasks : tasks[t].error # None}

\* A move that can succeed: the environment does nothing to it, no other move
\* has its destination, and on the filesystem of the start its directory can be
\* made and the file moved.
Undisturbed(t) ==
    /\ tasks[t].inject = "none"
    /\ \A u \in DOMAIN tasks : u # t => moves[u][2] # moves[t][2]
    /\ perform_move(fs0, moves[t][1], moves[t][2], "none").error = None

\* C11 (execution isolation): when the execution phase has ended every move has
\* been attempted and its result taken; a move that can succeed has succeeded,
\* whatever happened to the others (the file is at its destination and no
\* longer at its source); and the failure list holds one entry, with its own
\* message, for each move that failed, and no other move failure.
C11_ExecutionIsolation ==
    LiveRunOver =>
        /\ \A t \in DOMAIN tasks : tasks[t].st = "collected"
        /\ \A t \in DOMAIN tasks :
             Undisturbed(t) =>
                /\ t \notin FailedMoves
                /\ ContentAt(fs, real_dst(fs0, moves[t][1], moves[t][2]),
                             Stat(fs0, moves[t][1]).data)
                /\ moves[t][1] \notin DOMAIN fs
        /\ \A t \in FailedMoves :
             \E e \in ErrorsIn(MoveMessages) : errors[e] = <<moves[t][1], tasks[t].error>>
        /\ FilesIn(MoveMessages) = {moves[t][1] : t \in FailedMoves}
        /\ Cardinality(ErrorsIn(MoveMessages)) = Cardinality(FailedMoves)

\* C11's case: the environment failed one move and another move succeeded.
C11_Witness ==
    /\ LiveRunOver
    /\ \E t, u \in DOMAIN tasks :
         /\ tasks[t].inject # "none" /\ t \in FailedMoves
         /\ Undisturbed(u) /\ u \notin FailedMoves

\* C11's other cases: the directory of one move could not be made, and the
\* source of one move was gone, while another move succeeded.
C11_WitnessMkdir ==
    /\ LiveRunOver
    /\ \E t, u \in DOMAIN tasks :
         /\ ~mkdir_ok(fs0, Parent(moves[t][2])) /\ t \in FailedMoves
         /\ Undisturbed(u) /\ u \notin FailedMoves
C11_WitnessVanished ==
    /\ LiveRunOver
    /\ \E t, u \in DOMAIN tasks :
         /\ tasks[t].inject = "vanished" /\ t \in FailedMoves
         /\ Undisturbed(u) /\ u \notin FailedMoves

C12_WitnessDeclined == pc = "declined" /\ ret = {0}
C12_WitnessSuccess ==
    LiveRunOver /\ Len(moves) >= 2 /\ errors = <<>> /\ ret = {0}
C12_WitnessMoveFailed ==
    /\ LiveRunOver /\ ret = {1}
    /\ ErrorsIn(MoveMessages) # {} /\ ErrorsIn(MoveMessages) = 1..Len(errors)
C12_WitnessConflict ==
    /\ pc = "done" /\ ret = {1}
    /\ ErrorsIn(PlanningMessages) # {} /\ ErrorsIn(PlanningMessages) = 1..Len(errors)

\* Nothing has been resolved, planned or changed on the filesystem.
NothingDone ==
    /\ fs = fs0
    /\ photo_dates = <<>> /\ file_dates = <<>> /\ errors = <<>>
    /\ moves = <<>> /\ duplicates = <<>> /\ tasks = <<>>

\* The run goes on from the prompt to resolution or planning.
Proceeds == pc = "prompt" /\ pc' \in {"photos", "videos", "plan"}

\* C13 (safety guard), as stated: the run is at the prompt only when the flag
\* check is on; it goes on from there only if the line typed is 'y' or 'yes';
\* on any other line it returns 0 with nothing resolved, planned or changed.
C13_SafetyGuard ==
    [][/\ pc = "prompt" => ~opts.skip_flag_check /\ NothingDone
       /\ Proceeds => response \subseteq {"y", "yes"}
       /\ (pc = "prompt" /\ ~(response \subseteq {"y", "yes"}))
             => (pc' = "declined" /\ ret' = {0} /\ NothingDone')]_vars

\* The line typed, without the blanks around it and in lower case, is in S.
AnswerIn(S) == \E r \in response : Lower(Strip(r)) \in S

\* C13 (safety guard), amended: the run goes on from the prompt only if the
\* line typed is 'y' or 'yes' once the blanks around it are removed and its
\* letters are lower-cased; on any other line it returns 0 with nothing
\* resolved, planned or changed.
C13_SafetyGuardNormalised ==
    [][/\ pc = "prompt" => ~opts.skip_flag_check /\ NothingDone
       /\ Proceeds => AnswerIn({"y", "yes"})
       /\ (pc = "prompt" /\ ~AnswerIn({"y", "yes"}))
             => (pc' = "declined" /\ ret' = {0} /\ NothingDone')
       /\ pc = "declined" => UNCHANGED vars]_vars

\* C13's case: the operator typed an empty line and the run returned 0 with
\* photos discovered.
C13_Witness ==
    pc = "declined" /\ response = {""} /\ ret = {0} /\ photos # <<>> /\ NothingDone

\* C13's other case: the operator typed YES at the prompt.
C13_WitnessUpper == pc = "prompt" /\ response = {"YES"} /\ photos # <<>>

\* A photo whose capture timestamp is present and does not match the pattern.
Malformed(p) ==
    Stat(fs0, p).data.stamp # "" /\ ~MatchesExifPattern(Stat(fs0, p).data.stamp)

ResolvedFiles == {file_dates[k][1] : k \in 1..Len(file_dates)}

\* C14 (format error per file): the photo phase ends the run only when the
\* metadata provider failed, never because of a malformed timestamp; when the
\* phase is over every photo with a malformed timestamp is in the error list
\* and every photo with a well-formed one is resolved.
C14_FormatErrorPerFile ==
    /\ pc = "failed" => injected > 0
    /\ pc \in {"videos", "plan", "execute", "done"} =>
          \A p \in Range(photos) :
              /\ Malformed(p) => \E e \in 1..Len(errors) : errors[e][1] = p
              /\ photo_date(Stat(fs0, p).data.stamp).kind = "date" => p \in ResolvedFiles

\* A file that cannot be resolved: a photo without the capture timestamp, a
\* video whose probe shows no creation time or one that is no ISO date.
Unresolvable(p) ==
    \/ p \in Range(photos) /\ Stat(fs0, p).data.stamp = ""
    \/ p \in Range(videos) /\ ~FromIsoOk(Stat(fs0, p).data.stamp)

\* The files whose resolution has been tried: every photo once the photo phase
\* is over, the videos probed so far.
Tried ==
    IF pc \in {"plan", "execute", "done"} THEN Discovered
    ELSE IF pc = "videos" THEN Range(photos) \cup {videos[k] : k \in 1..idx}
    ELSE {}

\* C15 (resolution failures): every file that could not be resolved is in the
\* error list exactly once and in no move and no duplicate, and once planning
\* begins every discovered file has been either resolved or recorded.
C15_ResolutionFailures ==
    /\ \A p \in Tried :
         Unresolvable(p) =>
            /\ Cardinality({e \in 1..Len(errors) : errors[e][1] = p}) = 1
            /\ p \in FilesIn(ResolutionMessages)
            /\ p \notin ResolvedFiles
            /\ p \notin MoveSources \cup DuplicateSources
    /\ pc \in {"plan", "execute", "done"} =>
          \A p \in Discovered : Unresolvable(p) \/ p \in ResolvedFiles

\* C15's case: a photo without a timestamp and a video without a creation time
\* are recorded, in a run that ended.
C15_Witness ==
    /\ pc = "done"
    /\ \E p \in Range(photos), v \in Range(videos) : Unresolvable(p) /\ Unresolvable(v)

\* C15's other cases: an unresolvable photo next to one that was moved; a video
\* whose creation time is no ISO date.
C15_WitnessMixed ==
    /\ LiveRunOver /\ Len(moves) >= 1 /\ FailedMoves = {}
    /\ \E p \in Range(photos) : Unresolvable(p)
C15_WitnessUnparseable ==
    /\ pc = "done"
    /\ \E v \in Range(videos) : Stat(fs0, v).data.stamp = StampVideoBad

\* A root argument is not a directory when the run begins.
InvalidRoot ==
    Stat(fs0, opts.source_dir).kind # "dir" \/ Stat(fs0, opts.target_dir).kind # "dir"

\* C16 (fatal errors): with a root that is no directory the only step of the
\* run is its return; a failed call of the metadata provider is followed by
\* the return at once; both returns give status 1, leave the filesystem as it
\* was at the start with no move planned or submitted, and nothing follows
\* them.
C16_FatalNoSideEffects ==
    [][/\ InvalidRoot => (pc = "start" /\ pc' = "invalid")
       /\ (pc = "photos" /\ injected' > injected) => pc' = "failed"
       /\ pc' \in {"invalid", "failed"} =>
             (ret' = {1} /\ fs' = fs0 /\ moves' = <<>> /\ tasks' = <<>>)
       /\ pc \notin {"invalid", "failed"}]_vars

\* C16's case: the provider failed on a later batch, after a batch was resolved.
C16_Witness == pc = "failed" /\ injected > 0 /\ photo_dates # <<>>

\* C16's other case: the target root is a regular file.
C16_WitnessRoot == pc = "invalid" /\ is_file(fs0, opts.target_dir)

\* The extension of a file name in lower case, without its dot.
LowerExtension(p) == Lower(SubSeq(Suffix(p), 2, Len(Suffix(p))))

\* TARGET_ROOT/YYYY/YYYY-MM-DD/[EXT/]ORIGINAL_FILENAME
FormattedTarget(file_path, date, target_dir, group) ==
    LET yyyy == Pad(date.year, 4)
        day == yyyy \o "-" \o Pad(date.month, 2) \o "-" \o Pad(date.day, 2)
    IN  target_dir \o <<yyyy, day>>
            \o (IF group THEN <<LowerExtension(file_path)>> ELSE <<>>)
            \o <<Name(file_path)>>

\* C17 (target path format): for every resolved file calculate_target_path
\* gives TARGET_ROOT/YYYY/YYYY-MM-DD/[EXT/]ORIGINAL_FILENAME, EXT being the
\* extension in lower case without its dot, and this is the destination of the
\* file's move.
C17_TargetPathFormat ==
    /\ \A k \in 1..Len(file_dates) :
         target_of(k) = FormattedTarget(file_dates[k][1], file_dates[k][2],
                                        opts.target_dir, opts.group_by_extension)
    /\ \A m \in 1..Len(moves) : \A k \in 1..Len(file_dates) :
         file_dates[k][1] = moves[m][1] =>
            moves[m][2] = FormattedTarget(file_dates[k][1], file_dates[k][2],
                                          opts.target_dir, opts.group_by_extension)

\* The regular files below the source root (links are no regular files).
RegularFiles ==
    {p \in DOMAIN fs0 : IsUnder(opts.source_dir, p) /\ Lstat(fs0, p).kind = "file"}

Discovery == pc \notin {"start", "invalid"}

\* C18 (allow-list): once discovery is made, a regular file below the source
\* root is among the photos exactly when its extension in lower case is jpg,
\* jpeg, arw, sr2 or raf, among the videos exactly when it is mp4 or mov, and
\* never among both.
C18_AllowList ==
    Discovery =>
        \A p \in RegularFiles :
            /\ p \in Range(photos)
                  <=> LowerExtension(p) \in {"jpg", "jpeg", "arw", "sr2", "raf"}
            /\ p \in Range(videos) <=> LowerExtension(p) \in {"mp4", "mov"}
            /\ ~(p \in Range(photos) /\ p \in Range(videos))

\* C18's case: a photo with an upper-case extension is discovered next to a
\* regular file that is no media, in a run that ended.
C18_Witness ==
    /\ pc = "done"
    /\ \E p \in Range(photos) : Suffix(p) # Lower(Suffix(p))
    /\ \E p \in RegularFiles : p \notin Discovered

\* C18's other cases: a video with an upper-case extension; a file whose whole
\* name is an extension of the list.
C18_WitnessVideo == pc = "done" /\ \E p \in Range(videos) : Suffix(p) # Lower(Suffix(p))
C18_WitnessBareName ==
    Discovery /\ \E p \in RegularFiles : Name(p) = "jpg" /\ p \notin Discovered

\* C19 (symlinks and non-regular files): every discovered entry, and every
\* source of a move or of a duplicate, is itself a regular file, and an entry
\* that is none stays where it was.
C19_SkipsSymlinks ==
    /\ \A p \in Discovered \cup MoveSources \cup DuplicateSources :
         Lstat(fs0, p).kind = "file"
    /\ \A p \in DOMAIN fs0 :
         (IsUnder(opts.source_dir, p) /\ Lstat(fs0, p).kind \in {"link", "dir"})
            => Lstat(fs, p) = Lstat(fs0, p)

\* The canonical path of an entry: the path a symbolic link leads to, or its own.
Canonical(p) == IF Lstat(fs0, p).kind = "link" THEN Lstat(fs0, p).to ELSE p

\* C20 (no file twice): no two entries of the discovered photos and videos
\* have the same canonical path, and no two moves, duplicates and planning
\* errors are for the same canonical file.
C20_DiscoveredOnce ==
    LET found == photos \o videos
        planned == [m \in 1..Len(moves) |-> moves[m][1]]
                      \o [d \in 1..Len(duplicates) |-> duplicates[d][1]]
                      \o SetToSeq({errors[e][1] : e \in ErrorsIn(PlanningMessages)})
    IN  /\ \A i, j \in 1..Len(found) :
              i # j => Canonical(found[i]) # Canonical(found[j])
        /\ \A i, j \in 1..Len(planned) :
              i # j => Canonical(planned[i]) # Canonical(planned[j])

\* The files an action has been emitted for in this run.
Emitted == MoveSources \cup DuplicateSources \cup {errors[e][1] : e \in 1..Len(errors)}

\* The run before this one.
Last == previous[Len(previous)]

\* The moves of a run that succeeded.
MovedIn(run) == {t \in DOMAIN run.tasks : run.tasks[t].error = None}

\* A live run that moved every file it discovered.
FullyMoved(run) ==
    /\ run.ret = {0}
    /\ run.tasks # <<>>
    /\ Cardinality(MovedIn(run)) = Len(run.photos) + Len(run.videos)

\* C21 (idempotent re-run): in a run that follows a live run with the same
\* arguments, no action is emitted for a file F the run before moved, and the
\* destination D of that move stays as that run left it; after a run that
\* moved every file, the next run emits nothing, changes nothing and returns 0
\* (the environment failing no call of either run).
C21_IdempotentRerun ==
    (previous # <<>> /\ injected = 0) =>
        /\ \A t \in MovedIn(Last) :
             /\ Last.moves[t][1] \notin Emitted
             /\ Lstat(fs, Last.moves[t][2]) = Lstat(Last.fs, Last.moves[t][2])
        /\ FullyMoved(Last) =>
             /\ Emitted = {}
             /\ fs = Last.fs
             /\ ret \subseteq {0}
             /\ pc \notin {"invalid", "failed", "declined"}

\* The same, for a target root apart from the source root.
C21_Apart == opts.target_dir = TargetRoot => C21_IdempotentRerun

\* The moves in progress: their directory is made and the file is being moved.
Moving == {t \in DOMAIN tasks : tasks[t].st = "moving"}
\* The moves a worker may hold: not finished, with fewer than eight unfinished
\* moves ahead in the queue.
Held ==
    {t \in DOMAIN tasks :
        /\ tasks[t].st \in {"queued", "moving"}
        /\ Cardinality({u \in 1..(t - 1) : tasks[u].st \in {"queued", "moving"}}) < 8}

\* How far the moves have come: the steps taken by the workers and the main
\* thread, counted over the tasks.
Stage(st) == IF st = "queued" THEN 0 ELSE IF st = "moving" THEN 1
             ELSE IF st = "done" THEN 2 ELSE 3
RECURSIVE Advance(_)
Advance(k) == IF k = 0 THEN 0 ELSE Advance(k - 1) + Stage(tasks[k].st)

\* C22 (bounded concurrency): at every instant at most 8 moves are in
\* progress, and no move is begun while eight unfinished moves are ahead of
\* it.  Every planned move is executed once the workers ahead of it finish: a
\* move with fewer than eight unfinished moves ahead can begin, a move begun
\* can end, a result can be taken; every step of the execution phase brings
\* one move forward and none back; and the phase ends only when every result
\* has been taken.
C22_BoundedConcurrency ==
    /\ [](/\ Cardinality(Moving) <= 8 /\ Moving \subseteq Held /\ Cardinality(Held) <= 8
          /\ pc = "execute" =>
                \A t \in DOMAIN tasks :
                    /\ (t \in Held /\ tasks[t].st = "queued") => ENABLED TaskMkdir(t)
                    /\ tasks[t].st = "moving" => ENABLED TaskMove(t)
                    /\ tasks[t].st = "done" => ENABLED Collect(t)
          /\ (pc = "execute" /\ \A t \in DOMAIN tasks : tasks[t].st = "collected")
                => ENABLED Finish)
    /\ [][pc = "execute" =>
            IF pc' = "execute"
            THEN Advance(Len(tasks))' = Advance(Len(tasks)) + 1
            ELSE pc' = "done" /\ \A t \in DOMAIN tasks : tasks[t].st = "collected"]_vars

\* C22's case: nine moves are planned, eight are in progress and the ninth waits.
C22_Witness ==
    /\ pc = "execute" /\ Len(moves) = 9
    /\ Cardinality(Moving) = 8
    /\ tasks[9].st = "queued"

\* C22's other case: the ninth move is in progress, one of the first eight done.
C22_WitnessNinth ==
    pc = "execute" /\ Len(moves) = 9 /\ 9 \in Moving /\ Cardinality(Moving) = 8

\* The probe command was not there, raised, or ran longer than its timeout.
ProbeFailed == \E result \in probe : result.raised # None

\* C23 (probe degradation): on every failure of the probe command
\* check_immutable_flags returns False, and the run goes on from the flag
\* check to resolution (to planning when nothing was discovered to resolve)
\* with no prompt, no return value, and nothing resolved, planned or changed.
C23_ProbeDegradation ==
    [][/\ \A result \in ProbeResults :
            result.raised # None => ~check_immutable_flags(result)
       /\ (pc = "probed" /\ ProbeFailed)
            => /\ pc' = after_flags(photos, videos)
               /\ pc' \in {"photos", "videos", "plan"}
               /\ response' = {} /\ ret' = {}
               /\ NothingDone']_vars

\* C23's case: the probe ran longer than its timeout, with photos discovered.
C23_Witness ==
    /\ pc = "probed" /\ probe = {ProbeResult("TimeoutExpired", "")}
    /\ photos # <<>> /\ ~opts.dry_run

\* C23's other cases: the probe command is not there; the probe printed only a
\* blank line.
C23_WitnessUnavailable ==
    pc = "probed" /\ probe = {ProbeResult("FileNotFoundError", "")} /\ videos # <<>>

C23_WitnessBlank ==
    pc = "probed" /\ probe = {ProbeResult(None, " \n")}

\* The files the run recorded without classifying them as a move: resolution
\* failures, planning errors, duplicates.
NotMoves ==
    FilesIn(ResolutionMessages) \cup FilesIn(PlanningMessages) \cup DuplicateSources

\* The paths whose entry is not what it was when the run began.
Changed == {q \in DOMAIN fs \cup DOMAIN fs0 : Lstat(fs, q) # Lstat(fs0, q)}

\* Where the moves of the plan put their files, and the directories made for
\* them.
MoveDestinations == {real_dst(fs0, moves[m][1], moves[m][2]) : m \in 1..Len(moves)}
MadeDirectories ==
    {q \in UNION {Prefixes(Parent(moves[m][2])) : m \in 1..Len(moves)} :
        Lstat(fs0, q).kind = "none" /\ Lstat(fs, q).kind = "dir"}

C24_WitnessError ==
    /\ LiveRunOver /\ FilesIn(PlanningMessages) # {}
    /\ \E m \in 1..Len(moves) : moves[m][1] \notin DOMAIN fs

C24_WitnessUnresolved ==
    /\ LiveRunOver /\ FilesIn(ResolutionMessages) # {}
    /\ \E m \in 1..Len(moves) : moves[m][1] \notin DOMAIN fs

\* The lists of s one after the other.
RECURSIVE Flatten(_)
Flatten(s) == IF s = <<>> THEN <<>> ELSE Head(s) \o Flatten(Tail(s))

\* The photo phase is over, and the metadata provider failed no call.
PhotosRead == pc \in {"videos", "plan", "failed"} /\ photos # <<>> /\ injected = 0

NoExif(e) == e[2] = "No EXIF:DateTimeOriginal found"

\* C25 (batching does not change the result): for every batch size the CLI
\* accepts, when the photo phase is over the run has failed exactly when the
\* single-batch resolution of organize_media.py fails on the same photos; when
\* it has not failed, the date map and the photos recorded without a date are
\* those of the single-batch resolution, the batches handed to the provider
\* are the photos in order, each photo in one batch, and each batch has at
\* least one and at most batch_size photos.
C25_BatchingEquivalence ==
    PhotosRead =>
        LET single == om_photo_phase(fs0, photos, FALSE)
        IN  /\ pc = "failed" <=> single.failed
            /\ pc # "failed" =>
                  /\ photo_dates = single.photo_dates
                  /\ SelectSeq(errors, NoExif) = single.errors
                  /\ Flatten(batches) = photos
                  /\ \A b \in DOMAIN batches :
                       Len(batches[b]) >= 1 /\ Len(batches[b]) <= opts.batch_size

\* The same for the batch sizes from 1 on.
C25_PositiveBatchSizes == opts.batch_size >= 1 => C25_BatchingEquivalence

\* The photos are read in more than one batch, the last one shorter.
C25_Witness ==
    /\ PhotosRead /\ pc = "plan" /\ opts.batch_size = 2 /\ Len(photos) = 3
    /\ Len(batches) = 2 /\ Len(photo_dates) >= 1 /\ Len(photo_dates) < Len(photos)

\* The batch sizes below 1, with a photo that has a timestamp.
C25_WitnessZero ==
    /\ PhotosRead /\ opts.batch_size = 0
    /\ \E k \in DOMAIN photos : photo_date(Stat(fs0, photos[k]).data.stamp).kind = "date"

C25_WitnessNegative ==
    /\ PhotosRead /\ opts.batch_size < 0
    /\ \E k \in DOMAIN photos : photo_date(Stat(fs0, photos[k]).data.stamp).kind = "date"

\* C26 (a duplicate is another file): every entry (src, dst) of duplicates
\* names two different files, both regular files with the same bytes, also
\* when the source root is the target root and a file is at its own computed
\* target path.
C26_DuplicateIsDistinct ==
    \A d \in DOMAIN duplicates :
        /\ Canonical(duplicates[d][1]) # Canonical(duplicates[d][2])
        /\ filecmp_cmp(fs, duplicates[d][1], duplicates[d][2])

\* Where the roots are apart the entries of duplicates name different files.
C26_RootsApart == opts.source_dir # opts.target_dir => C26_DuplicateIsDistinct

\* C26's case: the source root is the target root, duplicate checking is on,
\* and a file discovered is at its own computed target path.
C26_Witness ==
    /\ opts.source_dir = opts.target_dir /\ opts.check_duplicates /\ ~opts.overwrite
    /\ pc \in {"execute", "done"}
    /\ \E k \in 1..Len(file_dates) : source_of(k) = target_of(k)

\* The roots are apart and a file was reported as a duplicate.
C26_WitnessApart ==
    opts.source_dir # opts.target_dir /\ duplicates # <<>> /\ pc = "done"

\* C27 (duplicates of the variant): in organize_media.py a resolved file whose
\* computed target holds the same bytes is in duplicates and not in moves, and
\* the run leaves the file and the target as they were.
C27_VariantDuplicate ==
    \A k \in 1..Planned :
        Identical(fs0, source_of(k), target_of(k))
        => /\ \E d \in 1..Len(duplicates) : duplicates[d] = <<source_of(k), target_of(k)>>
           /\ source_of(k) \notin MoveSources
           /\ Lstat(fs, source_of(k)) = Lstat(fs0, source_of(k))
           /\ Lstat(fs, target_of(k)) = Lstat(fs0, target_of(k))

\* The variant never puts a file in duplicates.
C27_NeverDuplicate == duplicates = <<>>

\* C27's case: a live run of the variant has ended, with a file whose target
\* held the same bytes.
C27_Witness ==
    /\ LiveRunOver
    /\ \E k \in 1..Planned : Identical(fs0, source_of(k), target_of(k))

====
